---- MODULE Spec2Model ----
(***************************************************************************)
(* Model of asg-ebs (src/main.go): runAsgEbs, the run-to-completion        *)
(* sequence that finds or creates an EBS volume, attaches it, formats it   *)
(* when blank and mounts it, together with the AwsAsgEbs methods it calls  *)
(* and the part of the EC2 control plane and of the local OS they act on.  *)
(*                                                                         *)
(* One action per call runAsgEbs makes on the AsgEbs interface.  A call    *)
(* that issues several control-plane requests (attachVolume, createVolume, *)
(* makeFileSystem) is one action whose outcome names the request that      *)
(* failed; the state it leaves is the state after the requests that were   *)
(* accepted before the failure.  log.Fatal ends the run (pc = "Failed").   *)
(***************************************************************************)
EXTENDS Integers, Sequences, FiniteSets, TLC

\* ------------------------------------------------------------------ bounds
NumInst == 2        \* instances of the fleet that may run
PoolSize == 2       \* volumes that exist before any run starts
NumSnaps == 2       \* snapshots held by the control plane
MaxTime == 2        \* snapshot start times are 1..MaxTime

\* ------------------------------------------------------- program constants
MaxAttempts == 10   \* for i := 1; i <= 10; i++

Instances == 1..NumInst
PoolIds == 1..PoolSize
VolIds == 1..(PoolSize + NumInst)
SnapIds == 1..NumSnaps
Nil == 0            \* a nil *string (no volume id, no snapshot id)
NoInstance == 0     \* a volume attached to no modelled instance
Outside == NumInst + 1  \* an instance that is not running asg-ebs
NoTag == "-"        \* the tag is not set on the resource

TagValue == "prod"              \* --tag-value; the key is --tag-key
LocalZone == "az-a"             \* AwsAsgEbs.AvailabilityZone
OtherZone == "az-b"
SnapshotName == "nightly"       \* --snapshot-name, when configured

VARIABLES
    cfg,        \* Config: snapshotName, deleteOnTermination
    volumes,    \* control plane: VolIds -> volume record
    snapshots,  \* control plane: SnapIds -> snapshot record
    devNode,    \* OS of instance i: /dev/<attachAs> exists
    mounted,    \* OS of instance i: mountPoint is in /proc/mounts
    pc,         \* position of run i in runAsgEbs
    i_,         \* loop variable i of the reuse loop of run i
    volumeId,   \* local volumeId of run i
    snapshotId, \* local snapshotId of run i
    createFileSystemOnVolume,   \* local flag of run i
    attached,   \* history: the volume the last successful attachVolume of run i attached
    failedOn,   \* history: the volumes attachVolume failed on in the reuse loop of run i
    calls       \* history: the AsgEbs calls of run i, in order, with their result

vars == <<cfg, volumes, snapshots, devNode, mounted, pc, i_, volumeId, snapshotId,
          createFileSystemOnVolume, attached, failedOn, calls>>

\* ------------------------------------------------------------ data model
AbsentVolume ==
    [state |-> "absent", az |-> LocalZone, attachedTo |-> NoInstance,
     tags |-> [Name |-> NoTag, filesystem |-> NoTag, key |-> NoTag],
     snapshot |-> Nil, formats |-> 0, deleteOnTermination |-> FALSE]

\* A volume a previous run left behind, formatted and tagged for reuse.
EligibleVolume ==
    [AbsentVolume EXCEPT !.state = "available",
                         !.tags = [Name |-> "data", filesystem |-> "true", key |-> TagValue]]

\* Pool volumes: the eligible one, and each way of missing one findVolume filter.
PoolKinds ==
    { EligibleVolume,
      [EligibleVolume EXCEPT !.az = OtherZone],
      [EligibleVolume EXCEPT !.state = "in-use", !.attachedTo = Outside],
      [EligibleVolume EXCEPT !.tags.filesystem = "false"],
      [EligibleVolume EXCEPT !.tags.filesystem = NoTag],
      [EligibleVolume EXCEPT !.tags.key = "other"] }

AbsentSnapshot == [state |-> "absent", startTime |-> 0, name |-> NoTag]

\* Snapshots: the eligible one at each start time, and each way of missing
\* one findSnapshot filter.
SnapKinds ==
    { AbsentSnapshot } \cup
    { [state |-> k[1], startTime |-> t, name |-> k[2]] :
        k \in { <<"completed", SnapshotName>>, <<"pending", SnapshotName>>,
                 <<"error", SnapshotName>>, <<"completed", "other">> },
        t \in 1..MaxTime }

\* A call of run i on the AsgEbs interface: the method, whether it returned a
\* nil error, and whether the id it returned was nil ("-" when it returns none).
Call(op, ok, ret) == [op |-> op, ok |-> ok, ret |-> ret]

Ret(id) == IF id = Nil THEN "nil" ELSE "id"

Append1(f, i, c) == [f EXCEPT ![i] = Append(@, c)]

\* ------------------------------------------------- checkDevice, checkMountPoint
\* os.Stat(device) finds the node: "Device exists".
checkDevice(i) == devNode[i]

\* /proc/mounts contains the mount point: "Already mounted".
checkMountPoint(i) == mounted[i]

\* ------------------------------------------------------------- findVolume
\* Mutant: the request carries no status filter.
VolumeFilter_NoStatus(v) ==
    /\ volumes[v].tags.key = TagValue
    /\ volumes[v].tags.filesystem = "true"
    /\ volumes[v].az = LocalZone

\* Mutant: the request carries no tag:filesystem filter.
VolumeFilter_NoFilesystem(v) ==
    /\ volumes[v].tags.key = TagValue
    /\ volumes[v].state = "available"
    /\ volumes[v].az = LocalZone

\* The four filters of the DescribeVolumes request, for the instance's zone.
VolumeFilter(v) ==
    /\ volumes[v].tags.key = TagValue
    /\ volumes[v].tags.filesystem = "true"
    /\ volumes[v].state = "available"
    /\ volumes[v].az = LocalZone

DescribeVolumes == {v \in VolIds : volumes[v].state # "absent" /\ VolumeFilter(v)}

\* The ids findVolume may return without error: nil when nothing matches, else
\* Volumes[0], and the control plane fixes no order.
findVolume == IF DescribeVolumes = {} THEN {Nil} ELSE DescribeVolumes

\* ----------------------------------------------------------- findSnapshot
\* The two filters of the DescribeSnapshots request.
SnapshotFilter(store, s, name) ==
    /\ store[s].name = name
    /\ store[s].state = "completed"

DescribeSnapshots(store, name) ==
    {s \in SnapIds : store[s].state # "absent" /\ SnapshotFilter(store, s, name)}

\* ByStartTime.Less
Less(store, a, b) == store[a].startTime < store[b].startTime

\* Mutant: sort.Sort(ByStartTime(...)) without sort.Reverse.
ReverseLess_Ascending(store, a, b) == Less(store, a, b)

\* sort.Reverse(ByStartTime(...)).Less(a, b) is Less(b, a).
ReverseLess(store, a, b) == Less(store, b, a)

\* The orders sort.Sort(sort.Reverse(...)) may leave S in: every arrangement of
\* S in which no element is ReverseLess than the one before it (the sort is
\* not stable).
Sorted(store, S) ==
    {q \in [1..Cardinality(S) -> S] :
        /\ \A a, b \in 1..Cardinality(S) : a # b => q[a] # q[b]
        /\ \A a \in 1..(Cardinality(S) - 1) : ~ReverseLess(store, q[a + 1], q[a])}

\* The ids findSnapshot may return without error.
findSnapshot(store, name) ==
    LET found == DescribeSnapshots(store, name)
    IN  IF found = {} THEN {Nil}
        ELSE {q[1] : q \in Sorted(store, found)}

\* ----------------------------------------------------------- createVolume
\* Mutant: the tag is not switched to "true" for a snapshot.
CreateFilesystemTag_AlwaysFalse(snap) == "false"

\* The filesystem tag createVolume puts on the volume it creates.
CreateFilesystemTag(snap) == IF snap # Nil THEN "true" ELSE "false"

\* Mutant: createVolumeInput.SnapshotId is never set.
CreatedVolume_Blank(snap) ==
    [AbsentVolume EXCEPT !.state = "creating", !.az = LocalZone]

\* CreateVolume accepted: a volume in the instance's zone, restored from snap.
CreatedVolume(snap) ==
    [AbsentVolume EXCEPT !.state = "creating", !.az = LocalZone, !.snapshot = snap]

\* CreateTags accepted: Name, filesystem and the --create-tags.
TaggedVolume(vol, snap) ==
    [vol EXCEPT !.tags = [Name |-> "data", filesystem |-> CreateFilesystemTag(snap),
                          key |-> cfg.createTags]]

\* Mutant: a volume whose tags could not be applied is deleted again.
createVolume_RollsBack(i, snap) ==
    LET new == PoolSize + i
    IN  { [id |-> Nil, err |-> TRUE, volumes |-> volumes],
          [id |-> new, err |-> TRUE, volumes |-> volumes],
          [id |-> new, err |-> FALSE,
           volumes |-> [volumes EXCEPT ![new] = TaggedVolume(CreatedVolume(snap), snap)]] }

\* Outcomes of createVolume(…, snap) by run i: the id returned, the error,
\* the control plane afterwards.
createVolume(i, snap) ==
    LET new == PoolSize + i
    IN  { [id |-> Nil, err |-> TRUE, volumes |-> volumes],
          [id |-> new, err |-> TRUE,
           volumes |-> [volumes EXCEPT ![new] = CreatedVolume(snap)]],
          [id |-> new, err |-> FALSE,
           volumes |-> [volumes EXCEPT ![new] = TaggedVolume(CreatedVolume(snap), snap)]] }

\* ----------------------------------------------------------- attachVolume
\* The control plane accepts AttachVolume only for an available volume of
\* the instance's zone, on a device name the instance has free.
AttachAccepted(i, v) ==
    /\ volumes[v].state = "available"
    /\ volumes[v].az = LocalZone
    /\ \A w \in VolIds : volumes[w].attachedTo # i

\* Mutant: the wait for the device node reports success at its deadline.
waitForFile_DeadlineIsSuccess(appears) == "nil"

\* waitForFile("/dev/"+attachAs, 60s): nil when the node shows up in time.
waitForFile(appears) == IF appears THEN "nil" ELSE "error"

\* Outcomes of attachVolume(v, attachAs, dot) by run i: the error, the
\* control plane and the device node afterwards.
attachVolume(i, v, dot) ==
    LET inUse == [volumes EXCEPT ![v].state = "in-use", ![v].attachedTo = i]
        modified == IF dot THEN [inUse EXCEPT ![v].deleteOnTermination = TRUE]
                    ELSE inUse
    IN  \* AttachVolume fails
        { [err |-> TRUE, volumes |-> volumes, devNode |-> devNode[i]] }
        \cup
        \* WaitUntilVolumeInUse fails; the node may show up all the same
        { [err |-> TRUE, volumes |-> inUse, devNode |-> d] :
            d \in {x \in BOOLEAN : AttachAccepted(i, v)} }
        \cup
        \* ModifyInstanceAttribute fails
        { [err |-> TRUE, volumes |-> inUse, devNode |-> d] :
            d \in {x \in BOOLEAN : AttachAccepted(i, v) /\ dot} }
        \cup
        \* waitForFile: the node shows up, or the 60 seconds pass
        { [err |-> waitForFile(d) # "nil", volumes |-> modified, devNode |-> d] :
            d \in {x \in BOOLEAN : AttachAccepted(i, v)} }

\* --------------------------------------------------------- makeFileSystem
\* The volume behind /dev/<attachAs> of instance i.
DeviceVolume(i) == CHOOSE v \in VolIds : volumes[v].attachedTo = i

\* Outcomes of makeFileSystem(device, ratio, vid) by run i.
makeFileSystem(i, vid) ==
    LET formatted == [volumes EXCEPT ![DeviceVolume(i)].formats = @ + 1]
    IN  \* mkfs.ext4 fails
        { [err |-> TRUE, volumes |-> volumes] }
        \cup
        \* mkfs.ext4 succeeds, CreateTags fails
        { [err |-> TRUE, volumes |-> formatted] : x \in {d \in {TRUE} : devNode[i]} }
        \cup
        { [err |-> FALSE,
           volumes |-> [formatted EXCEPT ![vid].tags.filesystem = "true"]] :
            x \in {d \in {TRUE} : devNode[i]} }

\* ------------------------------------------------------------ mountVolume
\* Outcomes of mountVolume(device, mountPoint): MkdirAll or mount fails, or
\* the device is mounted; mount needs the device node.
mountVolume(i) == {TRUE} \cup {e \in {FALSE} : devNode[i]}

\* -------------------------------------------------------------- runAsgEbs
\* Mutant: the error is logged with log.Warn and the run goes on.
Fatal_Warn(err, next) == next

\* log.Fatal after a call that returned an error ends the run.
Fatal(err, next) == IF err THEN "Failed" ELSE next

\* Mutant: the format step is not guarded by the flag.
FormatOrMount_Always(flag) == "makeFileSystem"

\* if createFileSystemOnVolume { makeFileSystem }; mountVolume
FormatOrMount(flag) == IF flag THEN "makeFileSystem" ELSE "mountVolume"

\* Mutant: the creation block is not guarded by volumeId == nil.
AfterBranch_AlwaysCreate(vid, flag) == "createVolume"

\* if volumeId == nil { create ... } after the reuse loop or the snapshot lookup
AfterBranch(vid, flag) == IF vid = Nil THEN "createVolume" ELSE FormatOrMount(flag)

\* Mutant: the reuse loop is entered whatever the configuration.
Branch_AlwaysReuse(name) == "findVolume"

\* if *cfg.snapshotName == "" { reuse loop } else { findSnapshot }
Branch(name) == IF name = "" THEN "findVolume" ELSE "findSnapshot"

\* Mutant: the loop has no bound.
LoopAgain_Forever(i) == TRUE

\* Mutant: the loop counts from 0.
LoopAgain_OffByOne(i) == i <= MaxAttempts

\* The reuse loop after a failed attachVolume: i++, then i <= 10.
LoopAgain(i) == i + 1 <= MaxAttempts

CheckDevice(i) ==
    /\ pc[i] = "checkDevice"
    /\ calls' = Append1(calls, i, Call("checkDevice", ~checkDevice(i), "-"))
    /\ pc' = [pc EXCEPT ![i] = Fatal(checkDevice(i), "checkMountPoint")]
    /\ UNCHANGED <<cfg, failedOn, volumes, snapshots, devNode, mounted, i_, volumeId, snapshotId,
                   createFileSystemOnVolume, attached>>

CheckMountPoint(i) ==
    /\ pc[i] = "checkMountPoint"
    /\ calls' = Append1(calls, i, Call("checkMountPoint", ~checkMountPoint(i), "-"))
    /\ pc' = [pc EXCEPT ![i] = Fatal(checkMountPoint(i), Branch(cfg.snapshotName))]
    /\ UNCHANGED <<cfg, failedOn, volumes, snapshots, devNode, mounted, i_, volumeId, snapshotId,
                   createFileSystemOnVolume, attached>>

\* Mutant: a failed DescribeVolumes request is taken for an empty answer.
FindVolume_ErrorAsNoMatch(i) ==
    /\ pc[i] = "findVolume"
    /\ \/ /\ calls' = Append1(calls, i, Call("findVolume", FALSE, "nil"))
          /\ volumeId' = [volumeId EXCEPT ![i] = Nil]
          /\ pc' = [pc EXCEPT ![i] = AfterBranch(Nil, createFileSystemOnVolume[i])]
       \/ \E v \in findVolume :
          /\ calls' = Append1(calls, i, Call("findVolume", TRUE, Ret(v)))
          /\ volumeId' = [volumeId EXCEPT ![i] = v]
          /\ pc' = [pc EXCEPT ![i] =
                      IF v = Nil THEN AfterBranch(v, createFileSystemOnVolume[i])
                      ELSE "attachVolume"]
    /\ UNCHANGED <<cfg, failedOn, volumes, snapshots, devNode, mounted, i_, snapshotId,
                   createFileSystemOnVolume, attached>>

FindVolume(i) ==
    /\ pc[i] = "findVolume"
    /\ \/ \* DescribeVolumes fails: log.Fatal
          /\ calls' = Append1(calls, i, Call("findVolume", FALSE, "nil"))
          /\ volumeId' = [volumeId EXCEPT ![i] = Nil]
          /\ pc' = [pc EXCEPT ![i] = Fatal(TRUE, "attachVolume")]
       \/ \E v \in findVolume :
          /\ calls' = Append1(calls, i, Call("findVolume", TRUE, Ret(v)))
          /\ volumeId' = [volumeId EXCEPT ![i] = v]
          /\ pc' = [pc EXCEPT ![i] =
                      IF v = Nil THEN AfterBranch(v, createFileSystemOnVolume[i])
                      ELSE "attachVolume"]
    /\ UNCHANGED <<cfg, failedOn, volumes, snapshots, devNode, mounted, i_, snapshotId,
                   createFileSystemOnVolume, attached>>

\* attachVolume inside the reuse loop: a failure is logged and the loop goes on.
AttachExisting(i) ==
    /\ pc[i] = "attachVolume"
    /\ \E r \in attachVolume(i, volumeId[i], cfg.deleteOnTermination) :
          /\ volumes' = r.volumes
          /\ devNode' = [devNode EXCEPT ![i] = r.devNode]
          /\ calls' = Append1(calls, i, Call("attachVolume", ~r.err, "-"))
          /\ attached' = [attached EXCEPT ![i] = IF r.err THEN @ ELSE volumeId[i]]
          /\ failedOn' = [failedOn EXCEPT ![i] = IF r.err THEN @ \cup {volumeId[i]}
                                                  ELSE @]
          /\ i_' = [i_ EXCEPT ![i] = IF r.err THEN @ + 1 ELSE @]
          /\ pc' = [pc EXCEPT ![i] =
                      IF r.err /\ LoopAgain(i_[i]) THEN "findVolume"
                      ELSE AfterBranch(volumeId[i], createFileSystemOnVolume[i])]
    /\ UNCHANGED <<cfg, snapshots, mounted, volumeId, snapshotId,
                   createFileSystemOnVolume>>

FindSnapshot(i) ==
    /\ pc[i] = "findSnapshot"
    /\ \/ \* DescribeSnapshots fails: log.Fatal
          /\ calls' = Append1(calls, i, Call("findSnapshot", FALSE, "nil"))
          /\ snapshotId' = [snapshotId EXCEPT ![i] = Nil]
          /\ pc' = [pc EXCEPT ![i] = Fatal(TRUE, "createVolume")]
       \/ \E s \in findSnapshot(snapshots, cfg.snapshotName) :
          /\ calls' = Append1(calls, i, Call("findSnapshot", TRUE, Ret(s)))
          /\ snapshotId' = [snapshotId EXCEPT ![i] = s]
          /\ pc' = [pc EXCEPT ![i] =
                      AfterBranch(volumeId[i], createFileSystemOnVolume[i])]
    /\ UNCHANGED <<cfg, failedOn, volumes, snapshots, devNode, mounted, i_, volumeId,
                   createFileSystemOnVolume, attached>>

CreateVolume(i) ==
    /\ pc[i] = "createVolume"
    /\ \E r \in createVolume(i, snapshotId[i]) :
          /\ volumes' = r.volumes
          /\ volumeId' = [volumeId EXCEPT ![i] = r.id]
          /\ calls' = Append1(calls, i, Call("createVolume", ~r.err, Ret(r.id)))
          /\ pc' = [pc EXCEPT ![i] =
                      Fatal(r.err, "waitUntilVolumeAvailable")]
    /\ UNCHANGED <<cfg, failedOn, snapshots, devNode, mounted, i_, snapshotId,
                   createFileSystemOnVolume, attached>>

WaitUntilVolumeAvailable(i) ==
    /\ pc[i] = "waitUntilVolumeAvailable"
    /\ \/ \* the waiter gives up: createFileSystemOnVolumeTimeout, log.Fatal
          /\ calls' = Append1(calls, i, Call("waitUntilVolumeAvailable", FALSE, "-"))
          /\ pc' = [pc EXCEPT ![i] = Fatal(TRUE, "attachNew")]
          /\ UNCHANGED <<volumes, createFileSystemOnVolume>>
       \/ \* the volume has become available
          /\ calls' = Append1(calls, i, Call("waitUntilVolumeAvailable", TRUE, "-"))
          /\ volumes' = [volumes EXCEPT ![volumeId[i]].state = "available"]
          /\ createFileSystemOnVolume' =
                [createFileSystemOnVolume EXCEPT ![i] = IF snapshotId[i] = Nil
                                                        THEN TRUE ELSE @]
          /\ pc' = [pc EXCEPT ![i] = Fatal(FALSE, "attachNew")]
    /\ UNCHANGED <<cfg, failedOn, snapshots, devNode, mounted, i_, volumeId, snapshotId, attached>>

\* Mutant: a failure to attach the created volume is logged like one in the loop.
AttachNew_Warn(i) ==
    /\ pc[i] = "attachNew"
    /\ \E r \in attachVolume(i, volumeId[i], cfg.deleteOnTermination) :
          /\ volumes' = r.volumes
          /\ devNode' = [devNode EXCEPT ![i] = r.devNode]
          /\ calls' = Append1(calls, i, Call("attachVolume", ~r.err, "-"))
          /\ attached' = [attached EXCEPT ![i] = IF r.err THEN @ ELSE volumeId[i]]
          /\ pc' = [pc EXCEPT ![i] = FormatOrMount(createFileSystemOnVolume[i])]
    /\ UNCHANGED <<cfg, failedOn, snapshots, mounted, i_, volumeId, snapshotId,
                   createFileSystemOnVolume>>

\* attachVolume of the volume just created: a failure is fatal.
AttachNew(i) ==
    /\ pc[i] = "attachNew"
    /\ \E r \in attachVolume(i, volumeId[i], cfg.deleteOnTermination) :
          /\ volumes' = r.volumes
          /\ devNode' = [devNode EXCEPT ![i] = r.devNode]
          /\ calls' = Append1(calls, i, Call("attachVolume", ~r.err, "-"))
          /\ attached' = [attached EXCEPT ![i] = IF r.err THEN @ ELSE volumeId[i]]
          /\ pc' = [pc EXCEPT ![i] =
                      Fatal(r.err, FormatOrMount(createFileSystemOnVolume[i]))]
    /\ UNCHANGED <<cfg, failedOn, snapshots, mounted, i_, volumeId, snapshotId,
                   createFileSystemOnVolume>>

\* Mutant: a makeFileSystem error is logged and the run goes on to mount.
MakeFileSystem_Warn(i) ==
    /\ pc[i] = "makeFileSystem"
    /\ \E r \in makeFileSystem(i, volumeId[i]) :
          /\ volumes' = r.volumes
          /\ calls' = Append1(calls, i, Call("makeFileSystem", ~r.err, "-"))
          /\ pc' = [pc EXCEPT ![i] = "mountVolume"]
    /\ UNCHANGED <<cfg, failedOn, snapshots, devNode, mounted, i_, volumeId, snapshotId,
                   createFileSystemOnVolume, attached>>

MakeFileSystem(i) ==
    /\ pc[i] = "makeFileSystem"
    /\ \E r \in makeFileSystem(i, volumeId[i]) :
          /\ volumes' = r.volumes
          /\ calls' = Append1(calls, i, Call("makeFileSystem", ~r.err, "-"))
          /\ pc' = [pc EXCEPT ![i] = Fatal(r.err, "mountVolume")]
    /\ UNCHANGED <<cfg, failedOn, snapshots, devNode, mounted, i_, volumeId, snapshotId,
                   createFileSystemOnVolume, attached>>

MountVolume(i) ==
    /\ pc[i] = "mountVolume"
    /\ \E err \in mountVolume(i) :
          /\ calls' = Append1(calls, i, Call("mountVolume", ~err, "-"))
          /\ mounted' = [mounted EXCEPT ![i] = IF err THEN @ ELSE TRUE]
          /\ pc' = [pc EXCEPT ![i] = Fatal(err, "Mounted")]
    /\ UNCHANGED <<cfg, failedOn, volumes, snapshots, devNode, i_, volumeId, snapshotId,
                   createFileSystemOnVolume, attached>>

Next ==
    \E i \in Instances :
        \/ CheckDevice(i)
        \/ CheckMountPoint(i)
        \/ FindVolume(i)
        \/ AttachExisting(i)
        \/ FindSnapshot(i)
        \/ CreateVolume(i)
        \/ WaitUntilVolumeAvailable(i)
        \/ AttachNew(i)
        \/ MakeFileSystem(i)
        \/ MountVolume(i)

\* ------------------------------------------------------------------- Init
Configs ==
    [snapshotName : {"", SnapshotName}, deleteOnTermination : BOOLEAN,
     createTags : {TagValue}]

Pools == [PoolIds -> PoolKinds]

Stores == [SnapIds -> SnapKinds]

EmptyStore == [s \in SnapIds |-> AbsentSnapshot]

InitVolumes(pool) == [v \in VolIds |-> IF v \in PoolIds THEN pool[v] ELSE AbsentVolume]

\* The locals of runAsgEbs as declared at its top, for the runs in `booting`.
InitRuns(booting) ==
    /\ pc = [i \in Instances |-> IF i \in booting THEN "checkDevice" ELSE "NotStarted"]
    /\ i_ = [i \in Instances |-> 1]
    /\ volumeId = [i \in Instances |-> Nil]
    /\ snapshotId = [i \in Instances |-> Nil]
    /\ createFileSystemOnVolume = [i \in Instances |-> FALSE]
    /\ attached = [i \in Instances |-> Nil]
    /\ failedOn = [i \in Instances |-> {}]
    /\ calls = [i \in Instances |-> <<>>]

\* One instance boots, in one of three kinds of surroundings.
\* The device or the mount point is taken: the run ends at its precondition checks.
InitPreconditions ==
    /\ cfg \in Configs
    /\ volumes = InitVolumes([v \in PoolIds |-> EligibleVolume])
    /\ snapshots = EmptyStore
    /\ devNode \in [Instances -> BOOLEAN]
    /\ mounted \in [Instances -> BOOLEAN]
    /\ devNode[1] \/ mounted[1]
    /\ \A i \in Instances : i # 1 => ~devNode[i] /\ ~mounted[i]

\* No snapshot name: any pool.  The snapshot store is read by findSnapshot alone.
InitReuse ==
    /\ cfg \in {c \in Configs : c.snapshotName = ""}
    /\ volumes \in {InitVolumes(pool) : pool \in Pools}
    /\ snapshots = EmptyStore
    /\ devNode = [i \in Instances |-> FALSE]
    /\ mounted = [i \in Instances |-> FALSE]

\* A snapshot name: any snapshot store, and a pool whose first n volumes are eligible.
InitSnapshot ==
    /\ cfg \in {c \in Configs : c.snapshotName # ""}
    /\ volumes \in {InitVolumes([v \in PoolIds |-> IF v <= n THEN EligibleVolume
                                                  ELSE AbsentVolume]) : n \in 0..PoolSize}
    /\ snapshots \in Stores
    /\ devNode = [i \in Instances |-> FALSE]
    /\ mounted = [i \in Instances |-> FALSE]

Init ==
    /\ InitPreconditions \/ InitReuse \/ InitSnapshot
    /\ InitRuns({1})

Spec == Init /\ [][Next]_vars

\* The single run again, with the promise that a call that can return does:
\* runAsgEbs is straight-line code around one bounded loop, and each waiter and
\* waitForFile ends by success or by its deadline.
SpecFair == Spec /\ WF_vars(Next)

\* Two instances boot one after the other: the run of the second starts when
\* the run of the first has ended.  The pool holds n eligible volumes; the
\* delete-on-termination flag is left off.
InitLater ==
    /\ cfg \in {c \in Configs : ~c.deleteOnTermination}
    /\ volumes \in {InitVolumes([v \in PoolIds |-> IF v <= n THEN EligibleVolume
                                                  ELSE AbsentVolume]) : n \in 0..PoolSize}
    /\ snapshots = EmptyStore
    /\ devNode = [i \in Instances |-> FALSE]
    /\ mounted = [i \in Instances |-> FALSE]
    /\ InitRuns({1, 2})

\* Run i has ended, and it is the turn of run i.
Ended(i) == pc[i] \in {"Mounted", "Failed"}

Turn(i) == \A j \in Instances : j < i => Ended(j)

NextLater ==
    \E i \in Instances :
        \/ Turn(i) /\ CheckDevice(i)
        \/ Turn(i) /\ CheckMountPoint(i)
        \/ Turn(i) /\ FindVolume(i)
        \/ Turn(i) /\ AttachExisting(i)
        \/ Turn(i) /\ FindSnapshot(i)
        \/ Turn(i) /\ CreateVolume(i)
        \/ Turn(i) /\ WaitUntilVolumeAvailable(i)
        \/ Turn(i) /\ AttachNew(i)
        \/ Turn(i) /\ MakeFileSystem(i)
        \/ Turn(i) /\ MountVolume(i)

SpecLater == InitLater /\ [][NextLater]_vars

\* The whole fleet boots against a pool of eligible volumes.
InitFleet ==
    /\ cfg \in Configs
    /\ volumes \in {InitVolumes(pool) : pool \in [PoolIds -> {EligibleVolume}]}
    /\ snapshots = EmptyStore
    /\ devNode = [i \in Instances |-> FALSE]
    /\ mounted = [i \in Instances |-> FALSE]
    /\ InitRuns(Instances)

SpecFleet == InitFleet /\ [][Next]_vars

\* ------------------------------------------------------ reading the calls
Ops(i, op) == {k \in DOMAIN calls[i] : calls[i][k].op = op}

Count(i, op) == Cardinality(Ops(i, op))

Last(i) == calls[i][Len(calls[i])]

\* The reuse loop of run i ran out: MaxAttempts times findVolume returned a
\* volume and attachVolume failed on it.
LoopExhausted(i) ==
    /\ cfg.snapshotName = ""
    /\ Len(calls[i]) >= 2 + 2 * MaxAttempts
    /\ \A n \in 1..MaxAttempts :
          /\ calls[i][2 * n + 1] = Call("findVolume", TRUE, "id")
          /\ calls[i][2 * n + 2] = Call("attachVolume", FALSE, "-")

\* Call k of run i is createVolume, followed by waitUntilVolumeAvailable and attachVolume.
CreationAt(i, k) ==
    /\ k + 2 <= Len(calls[i])
    /\ calls[i][k].op = "createVolume"
    /\ calls[i][k + 1].op = "waitUntilVolumeAvailable"
    /\ calls[i][k + 2].op = "attachVolume"

\* ----------------------------------------------------------------- claims

\* C1 (as claimed): with no snapshot name, once findVolume has returned a
\* volume and attachVolume has failed on each of the 10 iterations of the
\* reuse loop, the run turns to creation: what it does next is createVolume
\* with no snapshot id, and it calls mountVolume only after createVolume,
\* waitUntilVolumeAvailable and attachVolume.
C1_FallsBackToCreation ==
    \A i \in Instances :
        LoopExhausted(i) =>
            /\ snapshotId[i] = Nil
            /\ Len(calls[i]) = 2 + 2 * MaxAttempts => pc[i] = "createVolume"
            /\ Len(calls[i]) > 2 + 2 * MaxAttempts =>
                  calls[i][3 + 2 * MaxAttempts].op = "createVolume"
            /\ \A m \in Ops(i, "mountVolume") :
                  \E k \in 1..(m - 3) : CreationAt(i, k)

\* C2 (as claimed): mountVolume is called at most once in a run, exactly once
\* in a run that ends Mounted, and only after an attachVolume of the run has
\* succeeded for the volume volumeId holds.
C2_MountOnlyAfterAttach ==
    \A i \in Instances :
        /\ Count(i, "mountVolume") <= 1
        /\ pc[i] = "Mounted" => Count(i, "mountVolume") = 1
        /\ Count(i, "mountVolume") > 0 =>
              /\ attached[i] # Nil
              /\ attached[i] = volumeId[i]
              /\ \E k \in Ops(i, "attachVolume") : calls[i][k].ok

\* C3: a run whose checkDevice or checkMountPoint reported the device or the
\* mount point taken is Failed and has called nothing but the two checks, and
\* the step that fails a check leaves the control plane as it was.
PreconditionFailed(i) ==
    \E k \in DOMAIN calls[i] :
        /\ calls[i][k].op \in {"checkDevice", "checkMountPoint"}
        /\ ~calls[i][k].ok

C3_NothingCalled ==
    \A i \in Instances :
        PreconditionFailed(i) =>
            /\ pc[i] = "Failed"
            /\ \A k \in DOMAIN calls[i] :
                  calls[i][k].op \in {"checkDevice", "checkMountPoint"}
            /\ volumeId[i] = Nil /\ snapshotId[i] = Nil /\ attached[i] = Nil
            /\ \A v \in VolIds : volumes[v].attachedTo # i
            /\ volumes[PoolSize + i] = AbsentVolume

C3_ControlPlaneUnchanged ==
    \A i \in Instances :
        (pc[i] \in {"checkDevice", "checkMountPoint"} /\ pc'[i] = "Failed") =>
            /\ volumes' = volumes
            /\ snapshots' = snapshots

C3_PreconditionFailureStops ==
    /\ []C3_NothingCalled
    /\ [][C3_ControlPlaneUnchanged]_vars

C3_Witness ==
    \E i \in Instances :
        /\ pc[i] = "Failed"
        /\ calls[i] = << Call("checkDevice", TRUE, "-"), Call("checkMountPoint", FALSE, "-") >>
        /\ mounted[i]

\* The volumes createVolume created: the pool was there before.
Created(v) == v \notin PoolIds /\ volumes[v].state # "absent"

\* From creation to the first successful format the tag is "false", and "true"
\* only after it; a volume restored from a snapshot is "true" and never formatted.
TagFollowsFormat(v) ==
    IF volumes[v].snapshot = Nil
    THEN /\ volumes[v].tags.filesystem \in {"false", "true"}
         /\ volumes[v].formats = 0 => volumes[v].tags.filesystem = "false"
         /\ volumes[v].tags.filesystem = "true" => volumes[v].formats >= 1
    ELSE /\ volumes[v].tags.filesystem = "true"
         /\ volumes[v].formats = 0

\* C4 (as claimed): every volume createVolume created without a snapshot id is
\* tagged filesystem=false until makeFileSystem has formatted it and true only
\* after that; every volume createVolume created from a snapshot is tagged
\* filesystem=true and is never formatted.
C4_EveryCreatedVolumeTagged ==
    \A v \in VolIds : Created(v) => TagFollowsFormat(v)

\* C4 (amended): the same for every created volume whose CreateTags request
\* succeeded; a volume whose CreateTags request failed has no filesystem tag
\* and is never formatted.
C4_TaggedVolumeFollowsFormat ==
    \A v \in VolIds :
        Created(v) =>
            IF volumes[v].tags.Name # NoTag
            THEN TagFollowsFormat(v)
            ELSE volumes[v].tags.filesystem = NoTag /\ volumes[v].formats = 0

C4_Witness ==
    /\ \E v \in VolIds :
          /\ Created(v) /\ volumes[v].snapshot = Nil
          /\ volumes[v].tags.filesystem = "true" /\ volumes[v].formats = 1
    /\ \E i \in Instances : pc[i] = "Mounted"

\* Call k of run i is a successful attachVolume of the reuse loop.
ReuseAttachAt(i, k) ==
    /\ 1 < k /\ k <= Len(calls[i])
    /\ calls[i][k] = Call("attachVolume", TRUE, "-")
    /\ calls[i][k - 1].op = "findVolume"

\* Run i is at the format step with a blank volume it created itself.
OwnBlankAttachedAt(i, k) ==
    /\ 3 < k /\ k <= Len(calls[i]) + 1
    /\ CreationAt(i, k - 3)
    /\ calls[i][k - 3] = Call("createVolume", TRUE, "id")
    /\ calls[i][k - 1] = Call("attachVolume", TRUE, "-")
    /\ snapshotId[i] = Nil
    /\ Created(volumeId[i]) /\ volumes[volumeId[i]].snapshot = Nil
    /\ attached[i] = volumeId[i]

\* C5: makeFileSystem is called at most once in a run, right after the
\* successful attachVolume of a volume the run created with no snapshot id and
\* before mountVolume, and it is called whenever the run gets that far with
\* such a volume; it is not called in a run that reused a volume or restored
\* one from a snapshot.
C5_FormatOnlyOwnBlankVolume ==
    \A i \in Instances :
        /\ Count(i, "makeFileSystem") <= 1
        /\ \A k \in Ops(i, "makeFileSystem") :
              /\ OwnBlankAttachedAt(i, k)
              /\ \A m \in Ops(i, "mountVolume") : m > k
              /\ ~\E j \in DOMAIN calls[i] : ReuseAttachAt(i, j)
        /\ pc[i] = "makeFileSystem" => OwnBlankAttachedAt(i, Len(calls[i]) + 1)
        /\ OwnBlankAttachedAt(i, Len(calls[i]) + 1) => pc[i] = "makeFileSystem"
        /\ \A k \in DOMAIN calls[i] :
              OwnBlankAttachedAt(i, k) => calls[i][k].op = "makeFileSystem"

C5_Witness ==
    \E i \in Instances :
        /\ pc[i] = "Mounted"
        /\ Count(i, "makeFileSystem") = 1
        /\ volumes[volumeId[i]].formats = 1

\* C6: the reuse loop calls findVolume at most 10 times; a findVolume that
\* returned a volume is followed by exactly one attachVolume, any other
\* findVolume by none; and no findVolume follows a findVolume that returned no
\* volume or an attachVolume that succeeded.
C6_ReuseLoopBounded ==
    \A i \in Instances :
        /\ Count(i, "findVolume") <= MaxAttempts
        /\ i_[i] <= MaxAttempts + 1
        /\ \A k \in Ops(i, "findVolume") :
              LET found == calls[i][k].ok /\ calls[i][k].ret = "id"
                  n == Len(calls[i])
              IN  /\ found /\ k = n => pc[i] = "attachVolume"
                  /\ found /\ k < n => calls[i][k + 1].op = "attachVolume"
                  /\ found /\ k + 1 < n => calls[i][k + 2].op # "attachVolume"
                  /\ ~found /\ k < n => calls[i][k + 1].op \notin {"attachVolume", "findVolume"}
                  /\ ~found => \A j \in Ops(i, "findVolume") : j <= k
                  /\ k < n => calls[i][k + 1].op # "findVolume"
                  /\ ReuseAttachAt(i, k + 1) => \A j \in Ops(i, "findVolume") : j <= k
        /\ pc[i] = "attachVolume" => Last(i) = Call("findVolume", TRUE, "id")

C6_Witness ==
    \E i \in Instances :
        /\ Count(i, "findVolume") = MaxAttempts
        /\ i_[i] = MaxAttempts + 1
        /\ \A k \in Ops(i, "attachVolume") : ~calls[i][k].ok

\* C7 (as claimed): in a fleet running against one pool, no volume is attached
\* by two runs, a run that ends Mounted holds in volumeId a volume attached to
\* its own instance, and no two runs that end Mounted hold the same volume.
C7_MountedVolumeIsOwn ==
    /\ \A i, j \in Instances :
          i # j /\ attached[i] # Nil => attached[i] # attached[j]
    /\ \A i \in Instances :
          pc[i] = "Mounted" =>
              /\ volumeId[i] # Nil
              /\ volumes[volumeId[i]].attachedTo = i
    /\ \A i, j \in Instances :
          i # j /\ pc[i] = "Mounted" /\ pc[j] = "Mounted" => volumeId[i] # volumeId[j]

\* C8: with no snapshot name, once attachVolume has succeeded on a volume the
\* reuse loop found, the run calls neither createVolume nor
\* waitUntilVolumeAvailable nor makeFileSystem, and its next and last call is
\* mountVolume, on the device that volume is attached as.
C8_ReuseGoesStraightToMount ==
    \A i \in Instances : \A k \in DOMAIN calls[i] :
        (cfg.snapshotName = "" /\ ReuseAttachAt(i, k)) =>
            /\ Count(i, "createVolume") = 0
            /\ Count(i, "waitUntilVolumeAvailable") = 0
            /\ Count(i, "makeFileSystem") = 0
            /\ k = Len(calls[i]) => pc[i] = "mountVolume"
            /\ k < Len(calls[i]) =>
                  /\ calls[i][k + 1].op = "mountVolume"
                  /\ Len(calls[i]) = k + 1
            /\ devNode[i]
            /\ DeviceVolume(i) = volumeId[i]
            /\ volumes[volumeId[i]].tags.filesystem = "true"

C8_Witness ==
    \E i \in Instances :
        /\ pc[i] = "Mounted"
        /\ ReuseAttachAt(i, Len(calls[i]) - 1)
        /\ volumes[volumeId[i]].attachedTo = i

\* C9: with a snapshot name configured, a findSnapshot error ends the run
\* before any createVolume; a findSnapshot that found nothing is followed by
\* createVolume with no snapshot id, the volume it returns is tagged
\* filesystem=false until makeFileSystem has run, and mountVolume comes only
\* after a successful makeFileSystem; the id findSnapshot found is the one
\* createVolume restores from, and makeFileSystem is not called.
C9_SnapshotLookup ==
    \A i \in Instances : \A k \in Ops(i, "findSnapshot") :
        LET c == calls[i][k]
            n == Len(calls[i])
            formatted == \E m \in Ops(i, "makeFileSystem") : calls[i][m].ok
        IN  /\ cfg.snapshotName # ""
            /\ ~c.ok =>
                  /\ pc[i] = "Failed" /\ k = n
                  /\ Count(i, "createVolume") = 0
                  /\ volumeId[i] = Nil /\ snapshotId[i] = Nil
            /\ c.ok =>
                  /\ k = n => pc[i] = "createVolume"
                  /\ k < n => calls[i][k + 1].op = "createVolume"
                  /\ c.ret = Ret(snapshotId[i])
            /\ (c.ok /\ k < n /\ calls[i][k + 1].ret = "id") =>
                  /\ Created(volumeId[i])
                  /\ volumes[volumeId[i]].snapshot = snapshotId[i]
            /\ (c.ok /\ c.ret = "nil" /\ k < n /\ calls[i][k + 1].ok) =>
                  volumes[volumeId[i]].tags.filesystem =
                      IF formatted THEN "true" ELSE "false"
            /\ (c.ok /\ c.ret = "nil") =>
                  \A m \in Ops(i, "mountVolume") :
                      calls[i][m - 1] = Call("makeFileSystem", TRUE, "-")
            /\ (c.ok /\ c.ret = "id") =>
                  /\ snapshotId[i] \in DescribeSnapshots(snapshots, cfg.snapshotName)
                  /\ Count(i, "makeFileSystem") = 0
                  /\ pc[i] # "makeFileSystem"

C9_Witness ==
    \E i \in Instances :
        /\ pc[i] = "Mounted"
        /\ snapshotId[i] # Nil
        /\ volumes[volumeId[i]].snapshot = snapshotId[i]
        /\ volumes[volumeId[i]].tags.filesystem = "true"
        /\ volumes[volumeId[i]].formats = 0

\* The snapshots that carry the tag and are completed.
CompletedMatches ==
    {s \in SnapIds : snapshots[s].name = cfg.snapshotName /\ snapshots[s].state = "completed"}

\* C10: the id a findSnapshot call returned without error is nil exactly when
\* no completed snapshot carries the tag, and is otherwise a completed snapshot
\* carrying the tag whose start time no other such snapshot exceeds.
C10_FindSnapshotNewest ==
    \A i \in Instances :
        (\E k \in Ops(i, "findSnapshot") : calls[i][k].ok) =>
            IF CompletedMatches = {} THEN snapshotId[i] = Nil
            ELSE /\ snapshotId[i] \in CompletedMatches
                 /\ \A t \in CompletedMatches :
                       snapshots[snapshotId[i]].startTime >= snapshots[t].startTime

C10_Witness ==
    \E i \in Instances :
        /\ snapshotId[i] # Nil
        /\ \E t \in CompletedMatches :
              snapshots[t].startTime < snapshots[snapshotId[i]].startTime

\* The volumes that, in the current state, carry the configured tag and
\* filesystem=true, are available and lie in the instance's zone.
ReusableNow ==
    {v \in VolIds :
        /\ volumes[v].tags.key = cfg.createTags
        /\ volumes[v].tags.filesystem = "true"
        /\ volumes[v].state = "available"
        /\ volumes[v].az = LocalZone}

\* Run i takes its findVolume step.
FindVolumeStep(i) == pc[i] = "findVolume" /\ Len(calls'[i]) = Len(calls[i]) + 1

\* C11: a findVolume call that returns a volume returns one that, in the
\* state it queried, carried the tag, filesystem=true, was available and in
\* the local zone; a call that returns without error returns nil exactly when
\* no volume is such, and that is not a failure of the run.
C11_FindVolumeStep ==
    \A i \in Instances :
        FindVolumeStep(i) =>
            /\ volumeId'[i] # Nil => volumeId'[i] \in ReusableNow
            /\ calls'[i][Len(calls'[i])].ok =>
                  /\ volumeId'[i] = Nil <=> ReusableNow = {}
                  /\ pc'[i] # "Failed"

C11_FindVolumeReturnsMatch == [][C11_FindVolumeStep]_vars

\* findVolume returned a volume while another volume of the pool missed a filter.
C11_Witness ==
    \E i \in Instances :
        /\ Len(calls[i]) > 0
        /\ Last(i) = Call("findVolume", TRUE, "id")
        /\ volumeId[i] \in ReusableNow
        /\ \E w \in PoolIds : volumes[w].state = "available" /\ w \notin ReusableNow

\* findVolume returned nil without error and the run goes on to create a volume.
C11_WitnessNil ==
    \E i \in Instances :
        /\ Len(calls[i]) > 0
        /\ Last(i) = Call("findVolume", TRUE, "nil")
        /\ pc[i] = "createVolume"

\* No operation of run i was repeated beyond the loop bound: findVolume and
\* attachVolume at most MaxAttempts times, every other operation at most once.
BoundedRun(i) ==
    /\ Count(i, "findVolume") <= MaxAttempts
    /\ Count(i, "attachVolume") <= MaxAttempts
    /\ \A op \in {"checkDevice", "checkMountPoint", "findSnapshot", "createVolume",
                   "waitUntilVolumeAvailable", "makeFileSystem", "mountVolume"} :
          Count(i, op) <= 1
    /\ i_[i] <= MaxAttempts + 1

\* C12: every run that has started eventually ends, Mounted or Failed, and
\* on the way repeats no operation beyond the bound of the reuse loop.
C12_Terminates ==
    /\ <>(\A i \in Instances : pc[i] # "NotStarted" => Ended(i))
    /\ [](\A i \in Instances : BoundedRun(i))

\* A run that ended after all MaxAttempts iterations of the reuse loop.
C12_Witness ==
    \E i \in Instances :
        /\ Ended(i)
        /\ Count(i, "findVolume") = MaxAttempts
        /\ Count(i, "attachVolume") = MaxAttempts

\* The operations of the creation path of run i, in the order claimed.
CreationPath(i) ==
    IF snapshotId[i] = Nil
    THEN <<"createVolume", "waitUntilVolumeAvailable", "attachVolume",
           "makeFileSystem", "mountVolume">>
    ELSE <<"createVolume", "waitUntilVolumeAvailable", "attachVolume", "mountVolume">>

\* Where run i stands before the operation named op of the creation path.
Before(op) == IF op = "attachVolume" THEN "attachNew" ELSE op

\* C13: from its createVolume call on, what a run has called is a prefix of
\* createVolume, waitUntilVolumeAvailable, attachVolume, makeFileSystem (only
\* when no snapshot was used), mountVolume; every call but the last one
\* succeeded; a failed call is the last one and the run is Failed; after a
\* successful call the run stands before the next operation, or is Mounted.
C13_CreationPathInOrder ==
    \A i \in Instances :
        \A k \in Ops(i, "createVolume") :
            LET n == Len(calls[i]) - k + 1
                path == CreationPath(i)
            IN  /\ n <= Len(path)
                /\ \A j \in 1..n : calls[i][k + j - 1].op = path[j]
                /\ \A j \in 1..(n - 1) : calls[i][k + j - 1].ok
                /\ pc[i] = IF ~Last(i).ok THEN "Failed"
                           ELSE IF n = Len(path) THEN "Mounted"
                           ELSE Before(path[n + 1])

\* A creation path stopped by a failure to attach the created volume.
C13_Witness ==
    \E i \in Instances :
        \E k \in Ops(i, "createVolume") :
            /\ Len(calls[i]) = k + 2
            /\ Last(i) = Call("attachVolume", FALSE, "-")
            /\ pc[i] = "Failed"

\* A creation path without a snapshot that ran through makeFileSystem to the mount.
C13_WitnessMounted ==
    \E i \in Instances :
        /\ pc[i] = "Mounted"
        /\ Count(i, "createVolume") = 1
        /\ Count(i, "makeFileSystem") = 1

\* C14: a findVolume call that returned an error, in whichever iteration, is
\* the last call of its run and the run is Failed; a findVolume call that
\* returned nil without error is followed by createVolume and by nothing
\* else, and the run has not failed by it.
C14_FindVolumeErrorFatal ==
    \A i \in Instances :
        \A k \in Ops(i, "findVolume") :
            /\ ~calls[i][k].ok =>
                  /\ k = Len(calls[i])
                  /\ pc[i] = "Failed"
            /\ calls[i][k] = Call("findVolume", TRUE, "nil") =>
                  /\ k = Len(calls[i]) => pc[i] = "createVolume"
                  /\ k < Len(calls[i]) => calls[i][k + 1].op = "createVolume"
                  /\ \A j \in Ops(i, "findVolume") : j <= k

\* findVolume failed in a later iteration of the loop, after a failed attachVolume.
C14_Witness ==
    \E i \in Instances :
        /\ Len(calls[i]) > 0
        /\ Last(i) = Call("findVolume", FALSE, "nil")
        /\ Count(i, "attachVolume") > 0
        /\ pc[i] = "Failed"

\* findVolume found nothing in a later iteration and the run created a volume.
C14_WitnessNoMatch ==
    \E i \in Instances :
        /\ Count(i, "attachVolume") > 0
        /\ Count(i, "createVolume") = 1
        /\ \E k \in Ops(i, "findVolume") : calls[i][k] = Call("findVolume", TRUE, "nil")

\* Run i takes an attachVolume step, in the reuse loop or on the creation path.
AttachStep(i) ==
    /\ pc[i] \in {"attachVolume", "attachNew"}
    /\ Len(calls'[i]) = Len(calls[i]) + 1

\* C15: an attachVolume call returns success only if afterwards the volume
\* is in use and attached to the run's instance, the device node exists and,
\* when delete-on-termination was asked for, the mapping is modified.  The
\* mapping of a volume is modified only by a call that asked for it, and only
\* once the volume is in use on the instance; the device node appears only
\* once the attach request was accepted.
C15_AttachStep ==
    \A i \in Instances :
        AttachStep(i) =>
            LET v == volumeId[i] IN
            /\ calls'[i][Len(calls'[i])].ok =>
                  /\ volumes'[v].state = "in-use"
                  /\ volumes'[v].attachedTo = i
                  /\ devNode'[i]
                  /\ cfg.deleteOnTermination => volumes'[v].deleteOnTermination
            /\ \A w \in VolIds :
                  volumes'[w].deleteOnTermination # volumes[w].deleteOnTermination =>
                      /\ cfg.deleteOnTermination
                      /\ w = v
                      /\ volumes'[v].state = "in-use"
                      /\ volumes'[v].attachedTo = i
            /\ devNode'[i] /\ ~devNode[i] => volumes'[v].attachedTo = i

C15_AttachVolumeSuccess == [][C15_AttachStep]_vars

\* A successful attachVolume with delete-on-termination asked for.
C15_Witness ==
    \E i \in Instances :
        /\ Len(calls[i]) > 0
        /\ Last(i) = Call("attachVolume", TRUE, "-")
        /\ cfg.deleteOnTermination
        /\ volumes[volumeId[i]].deleteOnTermination
        /\ devNode[i]

\* C16: a createVolume call that returned a volume id together with an error
\* (the volume was created, its tags were not applied) is the last call of
\* its run and the run is Failed; the run holds the id, and the volume still
\* exists, without Name and filesystem tags, unattached and unformatted.
C16_TagFailureLeavesVolume ==
    \A i \in Instances :
        \A k \in Ops(i, "createVolume") :
            calls[i][k] = Call("createVolume", FALSE, "id") =>
                /\ k = Len(calls[i])
                /\ pc[i] = "Failed"
                /\ volumeId[i] \notin PoolIds \cup {Nil}
                /\ volumes[volumeId[i]].state \notin {"absent", "in-use"}
                /\ volumes[volumeId[i]].tags.Name = NoTag
                /\ volumes[volumeId[i]].tags.filesystem = NoTag
                /\ volumes[volumeId[i]].attachedTo = NoInstance
                /\ volumes[volumeId[i]].formats = 0

\* createVolume returned an id with an error after a snapshot was found.
C16_Witness ==
    \E i \in Instances :
        /\ Len(calls[i]) > 0
        /\ Last(i) = Call("createVolume", FALSE, "id")
        /\ snapshotId[i] # Nil
        /\ volumes[volumeId[i]].snapshot = snapshotId[i]

\* findVolume of run i has just returned the volume volumeId[i].
JustFound(i) == pc[i] = "attachVolume"

\* C17 (as claimed): every volume on which an attachVolume of the reuse loop
\* of a run failed is outside the available set from then on, and no later
\* findVolume of that run returns it.
C17_FailedVolumeNotFoundAgain ==
    \A i \in Instances :
        /\ \A v \in failedOn[i] : volumes[v].state # "available"
        /\ JustFound(i) => volumeId[i] \notin failedOn[i]

\* C17 (amended): a volume on which attachVolume failed after its attach
\* request was accepted is in use on the run's instance, and no later
\* findVolume of the run returns it; a volume that a findVolume of the run
\* returns again after a failed attachVolume is one whose attach requests were
\* all refused: it is still available and attached to nothing.
C17_AcceptedVolumeNotFoundAgain ==
    \A i \in Instances :
        /\ \A v \in failedOn[i] :
              volumes[v].attachedTo = i =>
                  /\ volumes[v].state = "in-use"
                  /\ JustFound(i) => volumeId[i] # v
        /\ JustFound(i) /\ volumeId[i] \in failedOn[i] =>
              /\ volumes[volumeId[i]].state = "available"
              /\ volumes[volumeId[i]].attachedTo = NoInstance

\* A volume is found again after a refused request, while another volume on
\* which attachVolume failed stays attached.
C17_Witness ==
    \E i \in Instances :
        /\ JustFound(i)
        /\ volumeId[i] \in failedOn[i]
        /\ \E w \in failedOn[i] : volumes[w].attachedTo = i

\* The makeFileSystem call of run i formatted the volume and then failed to
\* tag it: a makeFileSystem call of the run failed and its volume is formatted.
FormatTagFailed(i) ==
    /\ \E k \in Ops(i, "makeFileSystem") : ~calls[i][k].ok
    /\ volumes[volumeId[i]].formats >= 1

\* Run j, which started after run i had ended, went through discovery and
\* ended Mounted.
LaterRunMounted(i, j) ==
    /\ i < j
    /\ Count(j, "findVolume") > 0
    /\ pc[j] = "Mounted"

AttachedTo(i) == {w \in VolIds : volumes[w].attachedTo = i}

\* C19 (as claimed): at most one volume is attached to the instance of a
\* run, and a run issues an attach request (takes an attachVolume step) only
\* while no other volume is attached to its instance.
C19_AttachRequestStep ==
    \A i \in Instances :
        AttachStep(i) => AttachedTo(i) \subseteq {volumeId[i]}

C19_NoSecondAttachRequest ==
    /\ [](\A i \in Instances : Cardinality(AttachedTo(i)) <= 1)
    /\ [][C19_AttachRequestStep]_vars

\* C20: with a snapshot name configured a run never calls findVolume, never
\* holds or attaches a volume of the pool and leaves the pool as it was, and
\* a run whose findSnapshot returned without error calls createVolume next,
\* whatever eligible volumes exist.
C20_SnapshotNameSkipsReuse ==
    \A i \in Instances :
        cfg.snapshotName # "" =>
            /\ Count(i, "findVolume") = 0
            /\ volumeId[i] \notin PoolIds
            /\ attached[i] \notin PoolIds
            /\ \A v \in PoolIds : volumes[v].attachedTo \notin Instances
            /\ \A k \in Ops(i, "findSnapshot") :
                  calls[i][k].ok =>
                      /\ k = Len(calls[i]) => pc[i] = "createVolume"
                      /\ k < Len(calls[i]) => calls[i][k + 1].op = "createVolume"

\* With a snapshot name and an eligible volume waiting in the pool, the run
\* mounted a volume it created.
C20_Witness ==
    \E i \in Instances :
        /\ cfg.snapshotName # ""
        /\ pc[i] = "Mounted"
        /\ Count(i, "createVolume") = 1
        /\ attached[i] \notin PoolIds \cup {Nil}
        /\ ReusableNow \cap PoolIds # {}

====
